---------------------------- MODULE Spec2Model ----------------------------
(***************************************************************************)
(* Model of the assessment recommender: src/model.py (the class            *)
(* AssessmentRecommender and its training script) and src/app.py (the      *)
(* Flask process that loads or builds the index at import and serves       *)
(* /api/recommend).                                                        *)
(*                                                                         *)
(* Text is a sequence of one-character strings.  Real numbers are kept in  *)
(* fixed point: idf values in hundredths, unit vectors and cosine scores   *)
(* in thousandths.  A Python None or a pandas NaN is the empty tuple <<>>  *)
(* and a present value v is the one-element tuple <<v>>.                   *)
(***************************************************************************)
EXTENDS Integers, Sequences, FiniteSets, TLC

(***************************************************************************)
(* Bounds of the model.                                                    *)
(***************************************************************************)
\* Largest number of rows in the catalog CSV.
MaxDocs == 2
\* Largest top_n a direct caller of get_recommendations passes.
MaxTopN == 2
\* Number of worker processes the server starts on one artifact.
MaxWorkers == 2

\* top_n=10, the default of AssessmentRecommender.get_recommendations.
DefaultTopN == 10

None == <<>>
Some(v) == <<v>>
IsNone(o) == o = <<>>
Get(o) == o[1]

(***************************************************************************)
(* Characters and words.                                                   *)
(***************************************************************************)
LowerAlphabet ==
    <<"a","b","c","d","e","f","g","h","i","j","k","l","m",
      "n","o","p","q","r","s","t","u","v","w","x","y","z">>
UpperAlphabet ==
    <<"A","B","C","D","E","F","G","H","I","J","K","L","M",
      "N","O","P","Q","R","S","T","U","V","W","X","Y","Z">>

LowerLetters == {LowerAlphabet[i] : i \in 1..26}
UpperLetters == {UpperAlphabet[i] : i \in 1..26}
IsLower(c) == c \in LowerLetters
IsUpper(c) == c \in UpperLetters
\* str.lower() on one character.
LowerChar(c) ==
    IF IsUpper(c)
    THEN LowerAlphabet[CHOOSE i \in 1..26 : UpperAlphabet[i] = c]
    ELSE c
\* The regular expression class \s.
IsSpace(c) == c \in {" ", "\t", "\n"}

\* str.lower().
Lower(text) == [i \in 1..Len(text) |-> LowerChar(text[i])]

\* re.sub(r'[^a-zA-Z\s]', '', text): every other character is deleted,
\* nothing is put in its place.
KeepAlphaSpace(c) == IsLower(c) \/ IsUpper(c) \/ IsSpace(c)
StripNonAlpha(text) == SelectSeq(text, KeepAlphaSpace)

\* Splitting at white space.  word_tokenize is given text that holds only
\* letters and white space, where it splits at white space (its further
\* splitting of a few contractions such as "cannot" is not modelled; no
\* input of the model holds one).
RECURSIVE SplitFrom(_, _, _)
SplitFrom(text, i, word) ==
    IF i > Len(text)
    THEN IF word = <<>> THEN <<>> ELSE <<word>>
    ELSE IF IsSpace(text[i])
         THEN (IF word = <<>> THEN <<>> ELSE <<word>>)
                  \o SplitFrom(text, i + 1, <<>>)
         ELSE SplitFrom(text, i + 1, Append(word, text[i]))
word_tokenize(text) == SplitFrom(text, 1, <<>>)

\* ' '.join(tokens).
RECURSIVE Join(_)
Join(tokens) ==
    IF tokens = <<>> THEN <<>>
    ELSE IF Len(tokens) = 1 THEN tokens[1]
    ELSE tokens[1] \o <<" ">> \o Join(Tail(tokens))

\* stopwords.words('english') of NLTK, the entries an input of the model
\* can produce.
NltkStopWords ==
    { <<"t","h","e">>, <<"o","f">>, <<"a">>, <<"i","s">>, <<"a","n">>,
      <<"t","o">>, <<"i","n">>, <<"a","n","d">>, <<"f","o","r">> }
NotNltkStop(token) == token \notin NltkStopWords

\* AssessmentRecommender.preprocess_text.
preprocess_text(text) ==
    Join(SelectSeq(word_tokenize(StripNonAlpha(Lower(text))), NotNltkStop))

\* The number of tokens of a text after normalization.
NormalizedTokens(text) == word_tokenize(preprocess_text(text))

(***************************************************************************)
(* Fixed-point arithmetic.                                                 *)
(***************************************************************************)
Min(a, b) == IF a <= b THEN a ELSE b

\* Thousandths: the unit of vector components and cosine scores.
Unit == 10 * 100
\* Hundredths: the unit of idf values.
IdfUnit == 10 * 10

\* The largest r with r * r <= x, by Newton's iteration from a power of
\* two above it (r <= x \div r says r * r <= x without overflow).
RECURSIVE SqrtAbove(_, _)
SqrtAbove(x, r) == IF r > x \div r THEN r ELSE SqrtAbove(x, 2 * r)
RECURSIVE SqrtFrom(_, _)
SqrtFrom(x, r) ==
    IF r <= x \div r THEN r ELSE SqrtFrom(x, (r + x \div r) \div 2)
Sqrt(x) == IF x = 0 THEN 0 ELSE SqrtFrom(x, SqrtAbove(x, 1))

\* 100 * ln(a / b), rounded, for 1 < b <= a <= 7.
Ln100(a, b) ==
    CASE a = b               -> 0
      [] <<a, b>> = <<3, 2>> -> 41
      [] <<a, b>> = <<4, 2>> -> 69
      [] <<a, b>> = <<4, 3>> -> 29
      [] <<a, b>> = <<5, 2>> -> 92
      [] <<a, b>> = <<5, 3>> -> 51
      [] <<a, b>> = <<5, 4>> -> 22
      [] <<a, b>> = <<6, 2>> -> 110
      [] <<a, b>> = <<6, 3>> -> 69
      [] <<a, b>> = <<6, 4>> -> 41
      [] <<a, b>> = <<6, 5>> -> 18
      [] <<a, b>> = <<7, 2>> -> 125
      [] <<a, b>> = <<7, 3>> -> 85
      [] <<a, b>> = <<7, 4>> -> 56
      [] <<a, b>> = <<7, 5>> -> 34
      [] <<a, b>> = <<7, 6>> -> 15

\* The sum of f[t] over the elements t of the finite set S.
RECURSIVE SumOver(_, _)
SumOver(S, f) ==
    IF S = {} THEN 0
    ELSE LET t == CHOOSE u \in S : TRUE
         IN  f[t] + SumOver(S \ {t}, f)

\* sklearn.preprocessing.normalize(norm='l2') of one row: a zero row stays
\* zero, any other row is divided by its Euclidean length.
DivideBy(row, norm) ==
    [t \in DOMAIN row |-> IF norm = 0 THEN 0 ELSE (row[t] * Unit) \div norm]
normalize(row) ==
    DivideBy(row, Sqrt(SumOver(DOMAIN row, [t \in DOMAIN row |-> row[t] * row[t]])))

(***************************************************************************)
(* TfidfVectorizer(stop_words='english', max_features=5000,                *)
(* ngram_range=(1, 2)).  The vocabularies of the model stay far below      *)
(* max_features, so the cap never cuts and is not modelled.                *)
(***************************************************************************)
\* ENGLISH_STOP_WORDS of scikit-learn, the entries an input of the model
\* can produce ("top" is one of them and no NLTK stop word).
SklearnStopWords ==
    { <<"t","h","e">>, <<"o","f">>, <<"i","s">>, <<"a","n">>, <<"t","o">>,
      <<"i","n">>, <<"a","n","d">>, <<"f","o","r">>, <<"t","o","p">> }
\* token_pattern (?u)\b\w\w+\b keeps the words of two or more characters;
\* the stop words are dropped after that.
KeptByVectorizer(token) == Len(token) >= 2 /\ token \notin SklearnStopWords

\* The unigrams and the bigrams of a token sequence, each as a text.
word_ngrams(tokens) ==
    tokens \o [i \in 1..(Len(tokens) - 1) |->
                   tokens[i] \o <<" ">> \o tokens[i + 1]]

\* build_analyzer(): lower-case, tokenize, drop stop words, make n-grams.
analyze(doc) ==
    word_ngrams(SelectSeq(word_tokenize(Lower(doc)), KeptByVectorizer))

Range(s) == {s[i] : i \in 1..Len(s)}
\* The number of occurrences of feature t in a feature sequence.
Count(t, feats) == Cardinality({i \in 1..Len(feats) : feats[i] = t})

\* A vectorizer as __init__ leaves it: nothing fitted.
FreshVectorizer ==
    [fitted |-> FALSE, vocabulary_ |-> {}, idf_ |-> [t \in {} |-> 0]]

\* smooth_idf: idf(t) = ln((1 + n) / (1 + df(t))) + 1.
SmoothIdf(n, df) == Ln100(1 + n, 1 + df) + IdfUnit

\* The tf-idf row of one analysed document: tf * idf, then l2-normalised.
TfidfRow(vocabulary, idf, feats) ==
    normalize([t \in vocabulary |-> Count(t, feats) * idf[t]])

\* TfidfVectorizer.fit_transform.  An empty vocabulary raises
\* ValueError("empty vocabulary; ...") before anything is stored.
FitRaises(docs) == \A i \in 1..Len(docs) : analyze(docs[i]) = <<>>
Vocabulary(docs) == UNION {Range(analyze(docs[i])) : i \in 1..Len(docs)}
DocumentFrequency(t, docs) ==
    Cardinality({i \in 1..Len(docs) : t \in Range(analyze(docs[i]))})
FittedOn(docs, vocabulary) ==
    [fitted |-> TRUE,
     vocabulary_ |-> vocabulary,
     idf_ |-> [t \in vocabulary |->
                  SmoothIdf(Len(docs), DocumentFrequency(t, docs))]]
FittedVectorizer(docs) == FittedOn(docs, Vocabulary(docs))
TransformAll(v, docs) ==
    [i \in 1..Len(docs) |-> TfidfRow(v.vocabulary_, v.idf_, analyze(docs[i]))]
fit_transform(docs) == TransformAll(FittedVectorizer(docs), docs)

\* TfidfVectorizer.transform([text])[0] with a fitted vectorizer: features
\* outside the fitted vocabulary are ignored.
transform(vectorizer, text) ==
    TfidfRow(vectorizer.vocabulary_, vectorizer.idf_, analyze(text))

\* cosine_similarity(description_vector, tfidf_matrix)[0]: both sides are
\* l2-normalised again, then multiplied.
Dot(x, y) == SumOver(DOMAIN x, [t \in DOMAIN x |-> x[t] * y[t]]) \div Unit
DotEach(unit_vector, matrix) ==
    [i \in 1..Len(matrix) |-> Dot(unit_vector, normalize(matrix[i]))]
cosine_similarity(vector, matrix) == DotEach(normalize(vector), matrix)

(***************************************************************************)
(* Inputs: catalog rows, job descriptions, request bodies.                 *)
(***************************************************************************)
\* Rows of shl_assessments_rag.csv.  An empty cell is read as NaN (None).
RowNum ==
    [AssessmentName |-> Some(<<"N","u","m"," ","T","e","s","t">>),
     JobLevel |-> Some(<<"E","n","t","r","y">>),
     Duration |-> "24 minutes", RemoteTesting |-> "Yes"]
RowVerbal ==
    [AssessmentName |-> Some(<<"V","e","r","b","a","l"," ","T","e","s","t">>),
     JobLevel |-> Some(<<"E","n","t","r","y">>),
     Duration |-> "20 minutes", RemoteTesting |-> "No"]
\* A row whose text is digits and stop words only, with no job level.
RowEmptyText ==
    [AssessmentName |-> Some(<<"T","h","e"," ","7">>),
     JobLevel |-> None,
     Duration |-> "N/A", RemoteTesting |-> "No"]
CatalogRows == {RowNum, RowVerbal, RowEmptyText}

RECURSIVE SeqsUpTo(_, _)
SeqsUpTo(S, n) ==
    IF n = 0 THEN {<<>>}
    ELSE LET shorter == SeqsUpTo(S, n - 1)
         IN  shorter \cup {Append(s, x) : s \in shorter, x \in S}
\* The catalogs the CSV may hold, the one with no row included.
Catalogs == SeqsUpTo(CatalogRows, MaxDocs)

\* Job descriptions.
TextEmpty == <<>>
TextBlank == <<" ">>
TextStopDigits == <<"T","h","e"," ","7">>
TextNumTest == <<"N","u","m"," ","t","e","s","t">>
TextEntry == <<"E","n","t","r","y">>
QueryTexts == {TextEmpty, TextBlank, TextStopDigits, TextNumTest, TextEntry}

\* A Python value handed over as job_description: a str, or a JSON number.
Str(text) == [type |-> "str", text |-> text]
IntFive == [type |-> "int", text |-> <<>>]
\* bool(value) of Python: an empty str is false; the number 5 is true.
Truthy(value) == IF value.type = "str" THEN value.text # <<>> ELSE TRUE

\* Bodies of POST /api/recommend: JSON null, an object with no
\* job_description, an object with a str or a number under that key.
NoJson == [json |-> FALSE, job_description |-> None]
NoKey == [json |-> TRUE, job_description |-> None]
WithKey(value) == [json |-> TRUE, job_description |-> Some(value)]
Requests ==
    {NoJson, NoKey, WithKey(IntFive)} \cup {WithKey(Str(t)) : t \in QueryTexts}

(***************************************************************************)
(* State.                                                                  *)
(***************************************************************************)
VARIABLES
    csv,          \* the rows of shl_assessments_rag.csv
    argsortTies,  \* the order in which this build's argsort emits equal scores
    file,         \* the artifact assessment_recommender.pkl
    saved,        \* the recommender whose save_model wrote the artifact
    pc,           \* the app process: "boot", "saving", "serving", "exited"
    boot,         \* how load_model got the recommender: "loaded" or "fitted"
    exit,         \* why the app process ended
    recommender,  \* the module-level recommender of app.py
    scriptPc,     \* a direct user of model.py: "none", "new", "failed", "fitted", "saving"
    obj,          \* that user's AssessmentRecommender
    last,         \* the last get_recommendations call and what it gave
    remembered,   \* an observer's note of one earlier call, and what followed it
    workers       \* the server's worker processes, each importing app.py

vars == <<csv, argsortTies, file, saved, pc, boot, exit, recommender,
          scriptPc, obj, last, remembered, workers>>

(***************************************************************************)
(* AssessmentRecommender.                                                  *)
(***************************************************************************)
\* __init__.
NewRecommender ==
    [vectorizer |-> FreshVectorizer, assessments_df |-> None, tfidf_matrix |-> None]

\* Series.fillna('').
fillna(cell) == IF IsNone(cell) THEN <<>> ELSE Get(cell)

\* fit up to the call of fit_transform: read the CSV and add the
\* preprocessed column combined_features.
CombinedFeatures(row) ==
    preprocess_text(fillna(row.AssessmentName) \o <<" ">> \o fillna(row.JobLevel))
ReadAndCombine(rows) ==
    [i \in 1..Len(rows) |->
        [AssessmentName |-> rows[i].AssessmentName,
         JobLevel |-> rows[i].JobLevel,
         Duration |-> rows[i].Duration,
         RemoteTesting |-> rows[i].RemoteTesting,
         combined_features |-> CombinedFeatures(rows[i])]]
Documents(df) == [i \in 1..Len(df) |-> df[i].combined_features]

\* Whether fit raises (the ValueError of fit_transform), and the object
\* fit leaves behind: assessments_df is assigned before fit_transform runs.
fit_raises(rows) == FitRaises(Documents(ReadAndCombine(rows)))
FitFrame(self, df) ==
    IF FitRaises(Documents(df))
    THEN [self EXCEPT !.assessments_df = Some(df)]
    ELSE [vectorizer |-> FittedVectorizer(Documents(df)),
          assessments_df |-> Some(df),
          tfidf_matrix |-> Some(fit_transform(Documents(df)))]
fit(self, rows) == FitFrame(self, ReadAndCombine(rows))

\* ndarray.argsort(): corpus positions (from 0) by ascending score.  The
\* default kind, quicksort, is not stable: equal scores come out in an
\* order that depends on the build of numpy (its insertion sort of short
\* arrays keeps them in ascending position, its vectorised sorts do not).
\* Within one build the order is always the same.
TieOrders == {"ascending", "descending"}
\* A sort whose order of equal scores changes from call to call (here with
\* what the previous call returned).
BeforeUnstable(scores, a, b) ==
    \/ scores[a + 1] < scores[b + 1]
    \/ /\ scores[a + 1] = scores[b + 1]
       /\ IF Len(last.recs) % 2 = 0 THEN a < b ELSE a > b
Before(scores, a, b) ==
    \/ scores[a + 1] < scores[b + 1]
    \/ /\ scores[a + 1] = scores[b + 1]
       /\ IF argsortTies = "ascending" THEN a < b ELSE a > b
RECURSIVE SortPositions(_, _)
SortPositions(scores, S) ==
    IF S = {} THEN <<>>
    ELSE LET m == CHOOSE a \in S : \A b \in S \ {a} : Before(scores, a, b)
         IN  <<m>> \o SortPositions(scores, S \ {m})
argsort(scores) == SortPositions(scores, 0..(Len(scores) - 1))

\* s[::-1].
Reverse(s) == [i \in 1..Len(s) |-> s[Len(s) + 1 - i]]

\* The slice without [::-1]: the lowest scores first.
top_indices_unreversed(scores, top_n) ==
    SubSeq(argsort(scores), 1, Min(top_n, Len(scores)))
\* similarity_scores[0].argsort()[::-1][:top_n], for top_n >= 0.
top_indices(scores, top_n) ==
    SubSeq(Reverse(argsort(scores)), 1, Min(top_n, Len(scores)))

\* One entry of recommendations with ids counted from 1.
RecommendationOneBased(df, idx, scores) ==
    [id |-> ToString(idx + 1),
     title |-> df[idx + 1].AssessmentName,
     duration |-> df[idx + 1].Duration,
     jobLevel |-> df[idx + 1].JobLevel,
     remoteTestingAvailable |-> (df[idx + 1].RemoteTesting = "Yes"),
     similarity_score |-> scores[idx + 1]]
\* One entry of recommendations (the entries that are the same for every
\* record, description, category, skills, ..., are left out).
Recommendation(df, idx, scores) ==
    [id |-> ToString(idx),
     title |-> df[idx + 1].AssessmentName,
     duration |-> df[idx + 1].Duration,
     jobLevel |-> df[idx + 1].JobLevel,
     remoteTestingAvailable |-> (df[idx + 1].RemoteTesting = "Yes"),
     similarity_score |-> scores[idx + 1]]

Return(recs) == [kind |-> "return", exc |-> "", recs |-> recs]
Raise(exc) == [kind |-> "raise", exc |-> exc, recs |-> <<>>]

\* The scores of line 73.  cosine_similarity(X, None) compares X with
\* itself.
similarity_scores(self, vector) ==
    IF IsNone(self.tfidf_matrix)
    THEN cosine_similarity(vector, <<vector>>)
    ELSE cosine_similarity(vector, Get(self.tfidf_matrix))

\* Lines 75-98 of get_recommendations: the top positions, then one record
\* for each.
Records(self, scores, top) ==
    IF top # <<>> /\ IsNone(self.assessments_df)
    THEN Raise("AttributeError")          \* None.iloc
    ELSE Return([k \in 1..Len(top) |->
                    Recommendation(Get(self.assessments_df), top[k], scores)])
Recommend(self, scores, top_n) == Records(self, scores, top_indices(scores, top_n))

\* get_recommendations with a guard that answers an unfitted recommender
\* with an empty list.
get_recommendations_silent(self, job_description, top_n) ==
    IF job_description.type # "str"
    THEN Raise("AttributeError")
    ELSE IF ~self.vectorizer.fitted
    THEN Return(<<>>)
    ELSE Recommend(self,
                   similarity_scores(self,
                       transform(self.vectorizer,
                                 preprocess_text(job_description.text))),
                   top_n)
\* AssessmentRecommender.get_recommendations.
get_recommendations(self, job_description, top_n) ==
    IF job_description.type # "str"
    THEN Raise("AttributeError")          \* text.lower() of a number
    ELSE IF ~self.vectorizer.fitted
    THEN Raise("NotFittedError")          \* vectorizer.transform
    ELSE Recommend(self,
                   similarity_scores(self,
                       transform(self.vectorizer,
                                 preprocess_text(job_description.text))),
                   top_n)

\* save_model builds this dict and hands it to joblib.dump.
model_data(self) ==
    [vectorizer |-> self.vectorizer,
     assessments_df |-> self.assessments_df,
     tfidf_matrix |-> self.tfidf_matrix]

\* load_model that forgets to take the vectorizer from the artifact.
load_model_without_vectorizer(data) ==
    [NewRecommender EXCEPT
        !.assessments_df = data.assessments_df,
        !.tfidf_matrix = data.tfidf_matrix]
\* AssessmentRecommender.load_model on an artifact joblib.load can read.
load_model(data) ==
    [NewRecommender EXCEPT
        !.vectorizer = data.vectorizer,
        !.assessments_df = data.assessments_df,
        !.tfidf_matrix = data.tfidf_matrix]

(***************************************************************************)
(* app.py.                                                                 *)
(***************************************************************************)
Absent == [kind |-> "absent", data |-> None]
\* joblib.dump writes into the artifact's own path: until it is done the
\* path holds the beginning of a pickle.
Partial == [kind |-> "partial", data |-> None]
Dumped(self) == [kind |-> "valid", data |-> Some(model_data(self))]
\* os.path.exists(MODEL_PATH).
exists(f) == f.kind # "absent"

IsFitted(self) == self.vectorizer.fitted /\ ~IsNone(self.tfidf_matrix)

\* What a call left behind: who called, with what, and what came back
\* (status is the HTTP status, 0 for a direct call; error names the
\* exception class, where the response body carries str(e)).
Call(via, json, value, top_n, fitted, status, error, recs) ==
    [via |-> via, json |-> json, job_description |-> value, top_n |-> top_n,
     fitted |-> fitted, status |-> status, error |-> error, recs |-> recs]
NoCall == Call("none", FALSE, None, 0, FALSE, 0, "", <<>>)

\* The route /api/recommend, lines 23-45, with the module-level
\* recommender rec.
handle(rec, request) ==
    LET value == IF IsNone(request.job_description)
                 THEN Str(<<>>)             \* data.get('job_description', '')
                 ELSE Get(request.job_description)
        fitted == ~IsNone(rec) /\ IsFitted(Get(rec))
        Response(status, error, recs) ==
            Call("http", request.json, request.job_description, DefaultTopN,
                 fitted, status, error, recs)
    IN  IF ~request.json
        THEN Response(500, "AttributeError", <<>>)      \* None.get
        ELSE IF ~Truthy(value)
        THEN Response(400, "No job description provided", <<>>)
        ELSE IF IsNone(rec)
        THEN Response(500, "AttributeError", <<>>)      \* None.get_recommendations
        ELSE LET out == get_recommendations(Get(rec), value, DefaultTopN)
             IN  IF out.kind = "raise"
                 THEN Response(500, out.exc, <<>>)
                 ELSE Response(200, "", out.recs)

\* The observer's note: a call it has kept, and what it has seen since:
\* "kept" (nothing yet), "other" (calls with other arguments), "again"
\* (the last call repeats the kept one, after calls with other arguments).
Note(call, seen) == [call |-> call, seen |-> seen]
NothingNoted == Note(NoCall, "kept")
SameArguments(a, b) ==
    /\ a.via = b.via
    /\ a.job_description = b.job_description
    /\ a.top_n = b.top_n
    /\ a.fitted = b.fitted
Observe(note, call) ==
    IF note.call.via = "none" THEN note
    ELSE IF ~SameArguments(note.call, call) THEN Note(note.call, "other")
    ELSE IF note.seen = "kept" THEN note
    ELSE Note(note.call, "again")

\* A direct call obj.get_recommendations(text, top_n).
direct_call(self, text, top_n) ==
    LET out == get_recommendations(self, Str(text), top_n)
    IN  Call("lib", FALSE, Some(Str(text)), top_n, IsFitted(self), 0, out.exc, out.recs)

\* The import without the call of line 54 (load_model() only under
\* __main__, as the commented-out line 58 had it): a WSGI server imports
\* the module and serves.
AppLoadModelOnlyInMain ==
    /\ pc = "boot"
    /\ pc' = "serving"
    /\ UNCHANGED <<csv, argsortTies, file, saved, boot, exit, recommender,
                   scriptPc, obj, last, remembered, workers>>
\* load_model() of app.py, run by the import of the module (line 54),
\* up to the point where joblib.dump has opened the artifact.
AppLoadModel ==
    /\ pc = "boot"
    /\ IF exists(file)
       THEN IF file.kind = "valid"
            THEN /\ recommender' = Some(load_model(Get(file.data)))
                 /\ pc' = "serving"
                 /\ boot' = "loaded"
                 /\ exit' = ""
                 /\ UNCHANGED file
            ELSE \* joblib.load raises; nothing catches it: the import fails
                 /\ pc' = "exited"
                 /\ exit' = "EOFError"
                 /\ UNCHANGED <<boot, recommender, file>>
       ELSE IF fit_raises(csv)
            THEN /\ recommender' = Some(fit(NewRecommender, csv))
                 /\ pc' = "exited"
                 /\ exit' = "ValueError"
                 /\ UNCHANGED <<boot, file>>
            ELSE /\ recommender' = Some(fit(NewRecommender, csv))
                 /\ pc' = "saving"
                 /\ boot' = "fitted"
                 /\ exit' = ""
                 /\ file' = Partial
    /\ UNCHANGED <<csv, argsortTies, saved, scriptPc, obj, last, remembered, workers>>

\* joblib.dump returns, load_model returns, the import ends and the
\* server takes requests.
AppSaveDone ==
    /\ pc = "saving"
    /\ file' = Dumped(Get(recommender))
    /\ saved' = recommender
    /\ pc' = "serving"
    /\ UNCHANGED <<csv, argsortTies, boot, exit, recommender, scriptPc, obj, last, remembered, workers>>

\* The process is killed (while it writes the artifact, or while it serves).
AppKill ==
    /\ pc \in {"saving", "serving"}
    /\ pc' = "exited"
    /\ exit' = "killed"
    /\ UNCHANGED <<csv, argsortTies, file, saved, boot, recommender, scriptPc, obj, last, remembered, workers>>

\* The app is started again: a new process, the module imported anew,
\* no request answered yet.
AppStart ==
    /\ pc = "exited"
    /\ pc' = "boot"
    /\ boot' = ""
    /\ exit' = ""
    /\ recommender' = None
    /\ last' = NoCall
    /\ UNCHANGED <<csv, argsortTies, file, saved, scriptPc, obj, remembered, workers>>

\* POST /api/recommend: served once the import of app.py has finished.
AppRequest ==
    /\ pc = "serving"
    /\ \E request \in Requests : last' = handle(recommender, request)
    /\ UNCHANGED <<csv, argsortTies, file, saved, pc, boot, exit, recommender,
                   scriptPc, obj, remembered, workers>>

(***************************************************************************)
(* A direct user of model.py: the training script of lines 120-134, which  *)
(* also stands for any caller of the class.                                *)
(***************************************************************************)
ScriptNew ==
    /\ scriptPc = "none"
    /\ obj' = Some(NewRecommender)
    /\ scriptPc' = "new"
    /\ UNCHANGED <<csv, argsortTies, file, saved, pc, boot, exit, recommender, last, remembered, workers>>

ScriptFit ==
    /\ scriptPc = "new"
    /\ obj' = Some(fit(Get(obj), csv))
    /\ scriptPc' = IF fit_raises(csv) THEN "failed" ELSE "fitted"
    /\ UNCHANGED <<csv, argsortTies, file, saved, pc, boot, exit, recommender, last, remembered, workers>>

\* save_model: joblib.dump opens the artifact for writing ...
ScriptSaveBegin ==
    /\ scriptPc = "fitted"
    /\ file' = Partial
    /\ scriptPc' = "saving"
    /\ UNCHANGED <<csv, argsortTies, saved, pc, boot, exit, recommender, obj, last, remembered, workers>>

\* ... and has written it.
ScriptSaveDone ==
    /\ scriptPc = "saving"
    /\ file' = Dumped(Get(obj))
    /\ saved' = obj
    /\ scriptPc' = "fitted"
    /\ UNCHANGED <<csv, argsortTies, pc, boot, exit, recommender, obj, last, remembered, workers>>

\* The script ends or is killed, wherever it is.
ScriptExit ==
    /\ scriptPc # "none"
    /\ scriptPc' = "none"
    /\ obj' = None
    /\ UNCHANGED <<csv, argsortTies, file, saved, pc, boot, exit, recommender, last, remembered, workers>>

\* A call that, besides answering, leaves the catalog table in another row
\* order than fit gave it (the rows turned round in place).
ScriptQueryReordersTable ==
    /\ scriptPc \in {"new", "failed", "fitted"}
    /\ \E text \in QueryTexts, top_n \in 0..MaxTopN :
          last' = direct_call(Get(obj), text, top_n)
    /\ remembered' = Observe(remembered, last')
    /\ obj' = Some([Get(obj) EXCEPT !.assessments_df =
                       IF IsNone(@) THEN @ ELSE Some(Reverse(Get(@)))])
    /\ UNCHANGED <<csv, argsortTies, file, saved, pc, boot, exit, recommender,
                   scriptPc, workers>>
\* obj.get_recommendations(text, top_n) on the object as it is: new,
\* after a fit that raised, or fitted.
ScriptQuery ==
    /\ scriptPc \in {"new", "failed", "fitted"}
    /\ \E text \in QueryTexts, top_n \in 0..MaxTopN :
          last' = direct_call(Get(obj), text, top_n)
    /\ remembered' = Observe(remembered, last')
    /\ UNCHANGED <<csv, argsortTies, file, saved, pc, boot, exit, recommender,
                   scriptPc, obj, workers>>

(***************************************************************************)
(* Several worker processes of one server, each importing app.py and so    *)
(* each running load_model() of line 54 on the same artifact.  The steps   *)
(* of load_model are kept apart: nothing in it holds a lock.               *)
(***************************************************************************)
Workers == 1..MaxWorkers
\* A worker at the start of its import: pc is "check" (before
\* os.path.exists), then "load" or "fit", "save", "saving", and at last
\* "serving" or "exited".
NewWorker == [pc |-> "check", recommender |-> None, exit |-> ""]
\* The workers between the test of os.path.exists that found no artifact
\* and the return of save_model.
Builders == {w \in Workers : workers[w].pc \in {"fit", "save", "saving"}}
Writers == {w \in Workers : workers[w].pc = "saving"}

\* Line 15: os.path.exists(MODEL_PATH).
WorkerCheck(w) ==
    /\ workers[w].pc = "check"
    /\ workers' = [workers EXCEPT ![w].pc = IF exists(file) THEN "load" ELSE "fit"]
    /\ UNCHANGED <<csv, argsortTies, file, saved, pc, boot, exit, recommender,
                   scriptPc, obj, last, remembered>>

\* Line 16: AssessmentRecommender.load_model(MODEL_PATH), on the artifact
\* as it is now.
WorkerLoad(w) ==
    /\ workers[w].pc = "load"
    /\ workers' = [workers EXCEPT ![w] =
                      IF file.kind = "valid"
                      THEN [pc |-> "serving",
                            recommender |-> Some(load_model(Get(file.data))),
                            exit |-> ""]
                      ELSE [pc |-> "exited", recommender |-> None,
                            exit |-> "EOFError"]]
    /\ UNCHANGED <<csv, argsortTies, file, saved, pc, boot, exit, recommender,
                   scriptPc, obj, last, remembered>>

\* Lines 18-19: AssessmentRecommender() and fit.
WorkerFit(w) ==
    /\ workers[w].pc = "fit"
    /\ workers' = [workers EXCEPT ![w] =
                      [pc |-> IF fit_raises(csv) THEN "exited" ELSE "save",
                       recommender |-> Some(fit(NewRecommender, csv)),
                       exit |-> IF fit_raises(csv) THEN "ValueError" ELSE ""]]
    /\ UNCHANGED <<csv, argsortTies, file, saved, pc, boot, exit, recommender,
                   scriptPc, obj, last, remembered>>

\* Line 20: save_model, joblib.dump opens the artifact for writing and
\* truncates whatever the path held ...
WorkerSaveBegin(w) ==
    /\ workers[w].pc = "save"
    /\ file' = Partial
    /\ workers' = [workers EXCEPT ![w].pc = "saving"]
    /\ UNCHANGED <<csv, argsortTies, saved, pc, boot, exit, recommender,
                   scriptPc, obj, last, remembered>>

\* ... and has written its last byte.  When another worker is writing the
\* same path, that worker may have truncated the file since and not yet
\* written it anew: the path then holds a whole pickle or part of one.
WorkerSaveDone(w) ==
    /\ workers[w].pc = "saving"
    /\ \/ /\ file' = Dumped(Get(workers[w].recommender))
          /\ saved' = workers[w].recommender
       \/ /\ Writers # {w}
          /\ file' = Partial
          /\ UNCHANGED saved
    /\ workers' = [workers EXCEPT ![w].pc = "serving"]
    /\ UNCHANGED <<csv, argsortTies, pc, boot, exit, recommender,
                   scriptPc, obj, last, remembered>>

\* A worker that has ended is started again by the server's master.
WorkerRestart(w) ==
    /\ workers[w].pc \in {"serving", "exited"}
    /\ workers' = [workers EXCEPT ![w] = NewWorker]
    /\ UNCHANGED <<csv, argsortTies, file, saved, pc, boot, exit, recommender,
                   scriptPc, obj, last, remembered>>

(***************************************************************************)
(* Specifications.                                                         *)
(***************************************************************************)
Init ==
    /\ csv \in Catalogs
    /\ argsortTies \in TieOrders
    /\ file = Absent
    /\ saved = None
    /\ pc = "boot"
    /\ boot = ""
    /\ exit = ""
    /\ recommender = None
    /\ scriptPc = "none"
    /\ obj = None
    /\ last = NoCall
    /\ remembered = NothingNoted
    /\ workers = [w \in Workers |-> NewWorker]

\* The app, and the training script beside it.
Next ==
    \/ AppLoadModel
    \/ AppSaveDone
    \/ AppKill
    \/ AppStart
    \/ AppRequest
    \/ ScriptNew
    \/ ScriptFit
    \/ ScriptSaveBegin
    \/ ScriptSaveDone
    \/ ScriptExit

Spec == Init /\ [][Next]_vars

\* A direct user of the class alone: construct, fit, call, drop.
NextCalls ==
    \/ ScriptNew
    \/ ScriptFit
    \/ ScriptQuery
    \/ ScriptExit

SpecCalls == Init /\ [][NextCalls]_vars

\* The observer keeps the call just made on the fitted recommender, once.
Remember ==
    /\ last.via # "none"
    /\ last.fitted
    /\ remembered = NothingNoted
    /\ remembered' = Note(last, "kept")
    /\ UNCHANGED <<csv, argsortTies, file, saved, pc, boot, exit, recommender,
                   scriptPc, obj, last, workers>>

\* One recommender, constructed, fitted and then called again and again
\* under the observer's eyes.
NextObserved ==
    \/ ScriptNew
    \/ ScriptFit
    \/ ScriptQuery
    \/ Remember

SpecObserved == Init /\ [][NextObserved]_vars

\* The workers of one server, started together.
NextWorkers ==
    \/ \E w \in Workers : WorkerCheck(w)
    \/ \E w \in Workers : WorkerLoad(w)
    \/ \E w \in Workers : WorkerFit(w)
    \/ \E w \in Workers : WorkerSaveBegin(w)
    \/ \E w \in Workers : WorkerSaveDone(w)
    \/ \E w \in Workers : WorkerRestart(w)

SpecWorkers == Init /\ [][NextWorkers]_vars

(***************************************************************************)
(* The claims.                                                             *)
(***************************************************************************)
Scores(recs) == [i \in 1..Len(recs) |-> recs[i].similarity_score]
\* The corpus position a record's id is the string form of.
PositionOf(rec) == CHOOSE p \in 0..(MaxDocs - 1) : ToString(p) = rec.id
\* The text the route takes as job description: '' when the key is absent.
GivenText(call) ==
    IF IsNone(call.job_description) THEN <<>> ELSE Get(call.job_description).text
GivenIsText(call) ==
    IsNone(call.job_description) \/ Get(call.job_description).type = "str"

\* C1: a direct call on a recommender fitted on N documents returns at
\* most top_n and at most N records, all N of them when N < top_n
\* (zero scores included), with scores that never increase along the list.
C1_RankingBoundedAndSorted ==
    (last.via = "lib" /\ last.fitted) =>
        /\ last.error = ""
        /\ Len(last.recs) <= last.top_n
        /\ Len(last.recs) <= Len(csv)
        /\ Len(csv) < last.top_n => Len(last.recs) = Len(csv)
        /\ \A i, j \in 1..Len(last.recs) :
              i < j => Scores(last.recs)[i] >= Scores(last.recs)[j]

\* C1, its case: fewer documents than top_n, all returned, one of them
\* with score zero.
C1_Witness ==
    /\ last.via = "lib" /\ last.fitted
    /\ Len(csv) < last.top_n
    /\ Len(last.recs) = Len(csv)
    /\ \E i \in 1..Len(last.recs) : Scores(last.recs)[i] = 0

\* C2: of two returned records with equal scores, the one at the smaller
\* corpus position comes first.
C2_TiesByAscendingPosition ==
    (last.via = "lib" /\ last.fitted) =>
        \A i, j \in 1..Len(last.recs) :
            (i < j /\ Scores(last.recs)[i] = Scores(last.recs)[j])
                => PositionOf(last.recs[i]) < PositionOf(last.recs[j])

\* C3: whenever the app serves, load_model has finished: the module-level
\* recommender holds a fitted vectorizer and a matrix, every request was
\* answered from such a recommender, and after a startup that found no
\* artifact the artifact exists.
C3_LoadedBeforeServing ==
    /\ pc = "serving" => (~IsNone(recommender) /\ IsFitted(Get(recommender)))
    /\ last.via = "http" => last.fitted
    /\ (pc = "serving" /\ boot = "fitted") => exists(file)

\* C3, its case: a startup without artifact has fitted and saved, and a
\* request has been answered with recommendations.
C3_Witness ==
    /\ pc = "serving" /\ boot = "fitted"
    /\ file.kind = "valid"
    /\ last.via = "http" /\ last.status = 200 /\ last.recs # <<>>

\* C4: the artifact is written atomically: unless a save is under way
\* the artifact's path never holds a partly written file.
C4_ArtifactNeverPartial ==
    (pc # "saving" /\ scriptPc # "saving") => file.kind # "partial"

\* C5: an artifact that cannot be read is treated like no artifact:
\* startup never ends with the error of the load.
C5_CorruptIndexRebuilt == ~(pc = "exited" /\ exit = "EOFError")

\* C6: a request whose job description has no token after normalization
\* is rejected as a validation error and gets no recommendations.
C6_EmptyQueryRejected ==
    (/\ last.via = "http" /\ last.json
     /\ GivenIsText(last)
     /\ NormalizedTokens(GivenText(last)) = <<>>)
        => (last.status = 400 /\ last.recs = <<>>)

\* C7: a direct call on a recommender with no fitted model raises
\* NotFittedError and returns nothing, and no call on a fitted recommender
\* ends that way: the outcome tells this condition from every other.
C7_UnfittedRaisesNotFitted ==
    last.via = "lib" =>
        /\ ~last.fitted => (last.error = "NotFittedError" /\ last.recs = <<>>)
        /\ last.fitted => last.error # "NotFittedError"

\* C7, its case: a new recommender, not yet fitted, has been called.
C7_Witness ==
    /\ scriptPc = "new"
    /\ last.via = "lib" /\ ~last.fitted
    /\ last.error = "NotFittedError"

\* C8: after fit on an empty corpus the recommender is not half built (a
\* catalog table without a matrix), and every call on it fails as not
\* trained.
HalfBuilt(self) == ~IsNone(self.assessments_df) /\ IsNone(self.tfidf_matrix)
C8_EmptyCorpusFitMarksNotTrained ==
    csv = <<>> =>
        /\ scriptPc \in {"failed", "fitted"} => ~HalfBuilt(Get(obj))
        /\ last.via = "lib" => last.error = "NotFittedError"

\* C9: load_model gives back the three parts save_model wrote, and a
\* recommender that load_model read from the artifact answers every query
\* and every top_n as the in-memory recommender that wrote it.
C9_SaveLoadRoundTrip ==
    /\ file.kind = "valid" =>
          /\ load_model(Get(file.data)).vectorizer = Get(saved).vectorizer
          /\ load_model(Get(file.data)).assessments_df = Get(saved).assessments_df
          /\ load_model(Get(file.data)).tfidf_matrix = Get(saved).tfidf_matrix
    /\ (pc = "serving" /\ boot = "loaded") =>
          \A text \in QueryTexts, top_n \in 0..MaxTopN :
              get_recommendations(Get(recommender), Str(text), top_n)
                  = get_recommendations(Get(saved), Str(text), top_n)

\* C9, its case: the app was started on an artifact written earlier and
\* has answered a request with recommendations.
C9_Witness ==
    /\ pc = "serving" /\ boot = "loaded"
    /\ last.via = "http" /\ last.status = 200 /\ last.recs # <<>>

\* C10: a call with the text and the top_n of a call the observer kept,
\* on the same fitted recommender, gives what the kept call gave, whatever
\* was called in between.
C10_RepeatedCallSameResult ==
    SameArguments(remembered.call, last) => last = remembered.call

\* C10, its case: the kept call has been repeated after calls with other
\* arguments, and its result holds two records of equal score.
C10_Witness ==
    /\ remembered.seen = "again"
    /\ Len(last.recs) >= 2
    /\ Scores(last.recs)[1] = Scores(last.recs)[2]

\* C11: builds of the artifact are serialized: at most one worker at a
\* time is between finding the artifact absent and the return of
\* save_model, and no worker's load meets an artifact that is being
\* written.
C11_BuildsSerialized ==
    /\ Cardinality(Builders) <= 1
    /\ \A w \in Workers : workers[w].exit # "EOFError"

\* C12: calls of get_recommendations, answered or failed, leave the
\* recommender as the constructor or fit made it: the vectorizer, the
\* catalog table with its row order and the document matrix are those fit
\* built from the CSV, however many calls have been made since.
C12_QueriesLeaveIndexUnchanged ==
    /\ scriptPc = "new" => obj = Some(NewRecommender)
    /\ scriptPc \in {"failed", "fitted"} => obj = Some(fit(NewRecommender, csv))

\* C12, its case: a fitted recommender over two different rows has
\* answered a call, then calls with other arguments, then the first call
\* again.
C12_Witness ==
    /\ scriptPc = "fitted"
    /\ Len(csv) = 2 /\ csv[1] # csv[2]
    /\ remembered.seen = "again"
    /\ last.error = "" /\ last.recs # <<>>

\* C13: every record of a result is a row of the catalog: its id is the
\* string form of a position in 0..N-1, no position comes twice, title,
\* jobLevel, duration and remoteTestingAvailable are those of the row at
\* that position, the score is the similarity computed for that position,
\* and the records follow the order of the ranked positions.
C13_RecordsAreCatalogRows ==
    (last.via = "lib" /\ last.fitted /\ scriptPc = "fitted") =>
        LET self == Get(obj)
            df == Get(self.assessments_df)
            scores == similarity_scores(self,
                          transform(self.vectorizer,
                                    preprocess_text(GivenText(last))))
            ranked == top_indices(scores, last.top_n)
            recs == last.recs
        IN  /\ Len(df) = Len(csv)
            /\ Len(recs) = Len(ranked)
            /\ \A k \in 1..Len(recs) :
                  \E p \in 0..(Len(csv) - 1) :
                      /\ recs[k].id = ToString(p)
                      /\ ranked[k] = p
                      /\ recs[k].title = csv[p + 1].AssessmentName
                      /\ recs[k].jobLevel = csv[p + 1].JobLevel
                      /\ recs[k].duration = csv[p + 1].Duration
                      /\ recs[k].remoteTestingAvailable
                             = (csv[p + 1].RemoteTesting = "Yes")
                      /\ recs[k].similarity_score = scores[p + 1]
            /\ \A j, k \in 1..Len(recs) : j # k => recs[j].id # recs[k].id

\* C13, its case: a call with top_n above the number of rows has returned
\* both rows of a catalog of two different rows, the second row first.
C13_Witness ==
    /\ last.via = "lib" /\ last.fitted /\ scriptPc = "fitted"
    /\ Len(csv) = 2 /\ csv[1] # csv[2]
    /\ Len(last.recs) = 2
    /\ last.recs[1].id = "1" /\ last.recs[2].id = "0"
    /\ last.recs[1].title = csv[2].AssessmentName
    /\ Scores(last.recs)[1] > Scores(last.recs)[2]

=============================================================================
